---- MODULE Spec2Model ----
(***************************************************************************)
(* Model of src/oneshotlearning.py: runMultiAntSim plans the paths of      *)
(* three ants (scout, learner, lost learner), then hands a frame callback  *)
(* (animate) and a frame count to matplotlib's FuncAnimation, which calls  *)
(* init once and animate(i) for i = 0 .. totalFrames-1.                    *)
(*                                                                         *)
(* Coordinates are exact rationals stored as integers in units of 1/Unit,  *)
(* so that np.linspace over 50 samples is computed without rounding.       *)
(* Python lists are sequences (index k in Python is k+1 here); a point is  *)
(* the pair <<x, y>> of the code's parallel X and Y lists.                 *)
(***************************************************************************)
EXTENDS Integers, Sequences, FiniteSets, TLC

\* ---------------------------------------------------------------- bounds
\* steps (the stepCount argument) ranges over MinSteps .. MaxSteps; MinSteps
\* is below zero so that non-positive step counts are among the inputs.
MaxSteps == 10
\* a re-querying sink asks for the frames within Near of a phase boundary
Near == 1
\* steps of the runs whose frames are re-queried ranges over MinSteps .. MaxStepsAnyOrder
MaxStepsAnyOrder == 1
\* stepSize ranges over 1 .. MaxStepSize
MaxStepSize == 2
\* the generator is seeded with 0 .. MaxSeed
MaxSeed == 3

MinSteps == 0 - 1

\* ------------------------------------------------------- program constants
\* generate_homing's default num_steps
num_steps == 50
\* the sample count of the memorised trail, np.linspace(0, foodX, 50)
MemSamples == 50
\* one length unit of the program, in the model's integer units
Unit == (num_steps - 1) * (MemSamples - 1)

\* Python's None, and a value that is not None
None == {}
Some(v) == {v}
Get(o) == CHOOSE v \in o : TRUE

Nest == <<0, 0>>
Last(s) == s[Len(s)]

\* ------------------------------------------------------------ random source
\* np.random: a seeded generator whose stream is a function of the seed (here
\* a full-period congruential generator over 0..15). One draw advances the
\* generator state and yields a heading; the headings drawn are the four axis
\* directions k * pi/2, k in 0..3, so that cos and sin are exact.
NextRng(r) == (5 * r + 3) % 16
Heading(r) == r \div 4
Cos(k) == CASE k = 0 -> 1 [] k = 1 -> 0 [] k = 2 -> 0 - 1 [] OTHER -> 0
Sin(k) == CASE k = 0 -> 0 [] k = 1 -> 1 [] k = 2 -> 0 [] OTHER -> 0 - 1

VARIABLES
    steps, stepSize,                  \* the arguments of runMultiAntSim
    sensorFailure,                    \* the flag the caller asks for; the signature
                                      \* at line 5 has no parameter that carries it
    rng,                              \* state of the random source
    pc,                               \* position in runMultiAntSim
    pheromone_memory,                 \* None or Some(path)
    food,                             \* <<foodX, foodY>>, <<>> before the scout ran
    a1_walk, a3_walk,                 \* search legs of ant 1 and ant 3
    ant1_path, ant2_path, ant3_path,
    sensor_failure,                   \* the local assigned at line 49
    outcome,                          \* which branch produced each ant's path
    drawLog,                          \* one entry per random draw: the ant drawing
    len1, len2, len3, totalFrames,
    frames,                           \* frame count handed to FuncAnimation
    line1, dot1, line2, dot2, line3, dot3,
    lastI                             \* argument of the latest animate call, -1 if none

config == <<steps, stepSize, sensorFailure>>
plan   == <<rng, pheromone_memory, food, a1_walk, a3_walk, ant1_path, ant2_path,
            ant3_path, sensor_failure, outcome, drawLog>>
lens   == <<len1, len2, len3, totalFrames>>
artists == <<line1, dot1, line2, dot2, line3, dot3>>
vars == <<config, plan, lens, frames, artists, lastI, pc>>

\* --------------------------------------------------------- path synthesis
\* the search loop drawing one heading for the x move and another for the y
\* move of each step
RECURSIVE SearchLoop_TwoDraws(_, _, _, _, _, _)
SearchLoop_TwoDraws(n, st, walk, cur, r, drawn) ==
    IF n <= 0
    THEN [walk |-> walk, cur |-> cur, rng |-> r, drawn |-> drawn]
    ELSE LET r2  == NextRng(r)
             r3  == NextRng(r2)
             nxt == <<cur[1] + st * Unit * Cos(Heading(r2)),
                      cur[2] + st * Unit * Sin(Heading(r3))>>
         IN  SearchLoop_TwoDraws(n - 1, st, Append(walk, nxt), nxt, r3, drawn + 2)

\* generate_random_search: for _ in range(steps): draw, advance, append.
\* Returns the walk, the final point, the generator state and the draw count.
RECURSIVE SearchLoop(_, _, _, _, _, _)
SearchLoop(n, st, walk, cur, r, drawn) ==
    IF n <= 0
    THEN [walk |-> walk, cur |-> cur, rng |-> r, drawn |-> drawn]
    ELSE LET r2    == NextRng(r)
             angle == Heading(r2)
             nxt   == <<cur[1] + st * Unit * Cos(angle),
                        cur[2] + st * Unit * Sin(angle)>>
         IN  SearchLoop(n - 1, st, Append(walk, nxt), nxt, r2, drawn + 1)

generate_random_search(n, st, r) == SearchLoop(n, st, <<Nest>>, Nest, r, 0)

\* np.linspace(start, stop, num) for num >= 2, endpoint included
linspace(start, stop, num) ==
    [k \in 1..num |-> start + ((k - 1) * (stop - start)) \div (num - 1)]

Zip(xs, ys) == [k \in 1..Len(xs) |-> <<xs[k], ys[k]>>]

\* the homing leg with its end points exchanged: from the nest outwards
generate_homing_Outward(start, end) ==
    Zip(linspace(end[1], start[1], num_steps), linspace(end[2], start[2], num_steps))

\* lines 21-24
generate_homing(start, end) ==
    Zip(linspace(start[1], end[1], num_steps), linspace(start[2], end[2], num_steps))

\* the trail sampled from the food back to the nest, as the homing leg is
MemoryTrail_Homeward(f) ==
    Zip(linspace(f[1], 0, MemSamples), linspace(f[2], 0, MemSamples))

\* the dict written to pheromone_memory at lines 31-34
MemoryTrail(f) ==
    Zip(linspace(0, f[1], MemSamples), linspace(0, f[2], MemSamples))

Times(who, n) == [k \in 1..n |-> who]

\* ------------------------------------------------------------------ Init
InitWith(stepSet) ==
    /\ steps \in stepSet
    /\ stepSize \in 1..MaxStepSize
    /\ sensorFailure \in BOOLEAN
    /\ rng \in 0..MaxSeed
    /\ pc = "agent1"
    /\ pheromone_memory = None
    /\ food = <<>>
    /\ a1_walk = <<>> /\ a3_walk = <<>>
    /\ ant1_path = <<>> /\ ant2_path = <<>> /\ ant3_path = <<>>
    /\ sensor_failure = None
    /\ outcome = [k \in 1..3 |-> "NONE"]
    /\ drawLog = <<>>
    /\ len1 = 0 /\ len2 = 0 /\ len3 = 0 /\ totalFrames = 0
    /\ frames = 0
    /\ line1 = <<>> /\ dot1 = <<>>
    /\ line2 = <<>> /\ dot2 = <<>>
    /\ line3 = <<>> /\ dot3 = <<>>
    /\ lastI = 0 - 1

Init == InitWith(MinSteps..MaxSteps)

\* ------------------------------------------------------------ planning
\* the concatenation with the point shared by the two legs kept once
ConcatPath_SharedEndpoint(walk, home) == walk \o Tail(home)

\* lines 37-38 and 58-59: the search leg followed by the homing leg
ConcatPath(walk, home) == walk \o home

\* lines 26-38: the scout searches, homes, and the trail is memorised

Agent1 ==
    /\ pc = "agent1"
    /\ LET s    == generate_random_search(steps, stepSize, rng)
           home == generate_homing(s.cur, Nest)
       IN  /\ a1_walk' = s.walk
           /\ food' = s.cur
           /\ rng' = s.rng
           /\ drawLog' = drawLog \o Times(1, s.drawn)
           /\ pheromone_memory' = Some(MemoryTrail(s.cur))
           /\ ant1_path' = ConcatPath(s.walk, home)
    /\ outcome' = [outcome EXCEPT ![1] = "SEARCHED"]
    /\ pc' = "agent2"
    /\ UNCHANGED <<config, a3_walk, ant2_path, ant3_path, sensor_failure,
                   lens, frames, artists, lastI>>

\* Agent2 with the memory test inverted: the learner searches although a
\* trail is present
Agent2_IgnoresMemory ==
    /\ pc = "agent2"
    /\ LET s == generate_random_search(steps, stepSize, rng)
       IN  /\ ant2_path' = s.walk
           /\ rng' = s.rng
           /\ drawLog' = drawLog \o Times(2, s.drawn)
           /\ outcome' = [outcome EXCEPT ![2] = "SEARCHED"]
    /\ pc' = "agent3"
    /\ UNCHANGED <<config, pheromone_memory, food, a1_walk, a3_walk, ant1_path,
                   ant3_path, sensor_failure, lens, frames, artists, lastI>>

\* lines 40-46: the learner reuses the trail, or searches when there is none
Agent2 ==
    /\ pc = "agent2"
    /\ IF pheromone_memory # None
       THEN /\ ant2_path' = Get(pheromone_memory)
            /\ outcome' = [outcome EXCEPT ![2] = "REUSED_MEMORY"]
            /\ UNCHANGED <<rng, drawLog>>
       ELSE LET s == generate_random_search(steps, stepSize, rng)
            IN  /\ ant2_path' = s.walk
                /\ rng' = s.rng
                /\ drawLog' = drawLog \o Times(2, s.drawn)
                /\ outcome' = [outcome EXCEPT ![2] = "SEARCHED"]
    /\ pc' = "agent3"
    /\ UNCHANGED <<config, pheromone_memory, food, a1_walk, a3_walk, ant1_path,
                   ant3_path, sensor_failure, lens, frames, artists, lastI>>

\* Agent3 memorising the trail to the point its own forced search reached
Agent3_RewritesMemory ==
    /\ pc = "agent3"
    /\ sensor_failure' = Some(TRUE)
    /\ LET s    == generate_random_search(steps, stepSize, rng)
           home == generate_homing(s.cur, Nest)
       IN  /\ a3_walk' = s.walk
           /\ rng' = s.rng
           /\ drawLog' = drawLog \o Times(3, s.drawn)
           /\ ant3_path' = ConcatPath(s.walk, home)
           /\ pheromone_memory' = Some(MemoryTrail(s.cur))
           /\ outcome' = [outcome EXCEPT ![3] = "FORCED_SEARCH"]
    /\ pc' = "lengths"
    /\ UNCHANGED <<config, food, a1_walk, ant1_path, ant2_path,
                   lens, frames, artists, lastI>>

\* lines 48-59: sensor_failure is assigned True, whatever the configuration
Agent3 ==
    /\ pc = "agent3"
    /\ sensor_failure' = Some(TRUE)
    /\ IF pheromone_memory # None /\ ~Get(sensor_failure')
       THEN /\ ant3_path' = Get(pheromone_memory)
            /\ outcome' = [outcome EXCEPT ![3] = "REUSED_MEMORY"]
            /\ UNCHANGED <<rng, drawLog, a3_walk>>
       ELSE LET s    == generate_random_search(steps, stepSize, rng)
                home == generate_homing(s.cur, Nest)
            IN  /\ a3_walk' = s.walk
                /\ rng' = s.rng
                /\ drawLog' = drawLog \o Times(3, s.drawn)
                /\ ant3_path' = ConcatPath(s.walk, home)
                /\ outcome' = [outcome EXCEPT ![3] = "FORCED_SEARCH"]
    /\ pc' = "lengths"
    /\ UNCHANGED <<config, pheromone_memory, food, a1_walk, ant1_path, ant2_path,
                   lens, frames, artists, lastI>>

\* the frame count one too large
TotalFrames_OneMore(l1, l2, l3) == l1 + l2 + l3 + 1

\* the frame count with the third ant's frames left out
TotalFrames_TwoAnts(l1, l2, l3) == l1 + l2

\* line 64
TotalFrames(l1, l2, l3) == l1 + l2 + l3

\* lines 61-64

Lengths ==
    /\ pc = "lengths"
    /\ len1' = Len(ant1_path)
    /\ len2' = Len(ant2_path)
    /\ len3' = Len(ant3_path)
    /\ totalFrames' = TotalFrames(Len(ant1_path), Len(ant2_path), Len(ant3_path))
    /\ pc' = "figure"
    /\ UNCHANGED <<config, plan, frames, artists, lastI>>

\* lines 66-88 and 125-126: the six artists are created with no data and the
\* animation is constructed with frames = totalFrames
Figure ==
    /\ pc = "figure"
    /\ line1' = <<>> /\ dot1' = <<>>
    /\ line2' = <<>> /\ dot2' = <<>>
    /\ line3' = <<>> /\ dot3' = <<>>
    /\ frames' = totalFrames
    /\ pc' = "init"
    /\ UNCHANGED <<config, plan, lens, lastI>>

\* ------------------------------------------------------------ rendering
\* lines 90-97, called once by the animation before the first frame
init ==
    /\ pc = "init"
    /\ line1' = <<>> /\ dot1' = <<>>
    /\ line2' = <<>> /\ dot2' = <<>>
    /\ line3' = <<>> /\ dot3' = <<>>
    /\ pc' = "render"
    /\ UNCHANGED <<config, plan, lens, frames, lastI>>

\* Python's path[:n] and path[k]
Prefix(path, n) == SubSeq(path, 1, IF n < Len(path) THEN n ELSE Len(path))
At(path, k) == path[k + 1]

\* lines 100, 104, 112: the branch of animate taken for i, as the number of
\* the ant it draws; lines 108, 118: the index into that ant's path
Phase(i) == IF i < len1 THEN 1 ELSE IF i < len1 + len2 THEN 2 ELSE 3
LocalIndex(i) ==
    IF i < len1 THEN i ELSE IF i < len1 + len2 THEN i - len1 ELSE i - (len1 + len2)

\* the data of the six artists, and the data init gives them
Artists ==
    [line1 |-> line1, dot1 |-> dot1, line2 |-> line2, dot2 |-> dot2,
     line3 |-> line3, dot3 |-> dot3]
Cleared ==
    [line1 |-> <<>>, dot1 |-> <<>>, line2 |-> <<>>, dot2 |-> <<>>,
     line3 |-> <<>>, dot3 |-> <<>>]

\* animate with every slice one point short: path[:idx] for path[:idx+1]
Drawn_ShortSlice(a, i) ==
    IF i < len1
    THEN [a EXCEPT !.line1 = Prefix(ant1_path, i),
                   !.dot1  = <<At(ant1_path, i)>>]
    ELSE IF i < len1 + len2
    THEN LET idx == i - len1
         IN  [a EXCEPT !.line1 = ant1_path,
                       !.dot1  = <<Last(ant1_path)>>,
                       !.line2 = Prefix(ant2_path, idx),
                       !.dot2  = <<At(ant2_path, idx)>>]
    ELSE LET idx == i - (len1 + len2)
             b   == [a EXCEPT !.line1 = ant1_path,
                              !.dot1  = <<Last(ant1_path)>>,
                              !.line2 = ant2_path,
                              !.dot2  = <<Last(ant2_path)>>]
         IN  IF idx < len3
             THEN [b EXCEPT !.line3 = Prefix(ant3_path, idx),
                            !.dot3  = <<At(ant3_path, idx)>>]
             ELSE b

\* animate clearing the artists of the ants that have finished
Drawn_HidesFinished(a, i) ==
    IF i < len1
    THEN [a EXCEPT !.line1 = Prefix(ant1_path, i + 1),
                   !.dot1  = <<At(ant1_path, i)>>]
    ELSE IF i < len1 + len2
    THEN LET idx == i - len1
         IN  [a EXCEPT !.line1 = <<>>,
                       !.dot1  = <<>>,
                       !.line2 = Prefix(ant2_path, idx + 1),
                       !.dot2  = <<At(ant2_path, idx)>>]
    ELSE LET idx == i - (len1 + len2)
             b   == [a EXCEPT !.line1 = <<>>,
                              !.dot1  = <<>>,
                              !.line2 = <<>>,
                              !.dot2  = <<>>]
         IN  IF idx < len3
             THEN [b EXCEPT !.line3 = Prefix(ant3_path, idx + 1),
                            !.dot3  = <<At(ant3_path, idx)>>]
             ELSE b

\* animate updating the active ant only, leaving the finished ants as the
\* earlier frames drew them
Drawn_ActiveOnly(a, i) ==
    IF i < len1
    THEN [a EXCEPT !.line1 = Prefix(ant1_path, i + 1),
                   !.dot1  = <<At(ant1_path, i)>>]
    ELSE IF i < len1 + len2
    THEN LET idx == i - len1
         IN  [a EXCEPT !.line2 = Prefix(ant2_path, idx + 1),
                       !.dot2  = <<At(ant2_path, idx)>>]
    ELSE LET idx == i - (len1 + len2)
         IN  IF idx < len3
             THEN [a EXCEPT !.line3 = Prefix(ant3_path, idx + 1),
                            !.dot3  = <<At(ant3_path, idx)>>]
             ELSE a

\* animate placing the markers of the waiting ants at the start of their
\* paths while ant 1 is drawn
Drawn_ShowsWaiting(a, i) ==
    IF i < len1
    THEN [a EXCEPT !.line1 = Prefix(ant1_path, i + 1),
                   !.dot1  = <<At(ant1_path, i)>>,
                   !.line2 = Prefix(ant2_path, 1),
                   !.dot2  = <<At(ant2_path, 0)>>,
                   !.line3 = Prefix(ant3_path, 1),
                   !.dot3  = <<At(ant3_path, 0)>>]
    ELSE IF i < len1 + len2
    THEN LET idx == i - len1
         IN  [a EXCEPT !.line1 = ant1_path,
                       !.dot1  = <<Last(ant1_path)>>,
                       !.line2 = Prefix(ant2_path, idx + 1),
                       !.dot2  = <<At(ant2_path, idx)>>]
    ELSE LET idx == i - (len1 + len2)
             b   == [a EXCEPT !.line1 = ant1_path,
                              !.dot1  = <<Last(ant1_path)>>,
                              !.line2 = ant2_path,
                              !.dot2  = <<Last(ant2_path)>>]
         IN  IF idx < len3
             THEN [b EXCEPT !.line3 = Prefix(ant3_path, idx + 1),
                            !.dot3  = <<At(ant3_path, idx)>>]
             ELSE b

\* animate with the third phase's index computed as i - len1
Drawn_WrongOffset(a, i) ==
    IF i < len1
    THEN [a EXCEPT !.line1 = Prefix(ant1_path, i + 1),
                   !.dot1  = <<At(ant1_path, i)>>]
    ELSE IF i < len1 + len2
    THEN LET idx == i - len1
         IN  [a EXCEPT !.line1 = ant1_path,
                       !.dot1  = <<Last(ant1_path)>>,
                       !.line2 = Prefix(ant2_path, idx + 1),
                       !.dot2  = <<At(ant2_path, idx)>>]
    ELSE LET idx == i - len1
             b   == [a EXCEPT !.line1 = ant1_path,
                              !.dot1  = <<Last(ant1_path)>>,
                              !.line2 = ant2_path,
                              !.dot2  = <<Last(ant2_path)>>]
         IN  IF idx < len3
             THEN [b EXCEPT !.line3 = Prefix(ant3_path, idx + 1),
                            !.dot3  = <<At(ant3_path, idx)>>]
             ELSE b

\* lines 99-123: the artists after animate(i), given their data a before it;
\* an artist whose set_data is not called keeps its data
Drawn(a, i) ==
    IF i < len1
    THEN [a EXCEPT !.line1 = Prefix(ant1_path, i + 1),
                   !.dot1  = <<At(ant1_path, i)>>]
    ELSE IF i < len1 + len2
    THEN LET idx == i - len1
         IN  [a EXCEPT !.line1 = ant1_path,
                       !.dot1  = <<Last(ant1_path)>>,
                       !.line2 = Prefix(ant2_path, idx + 1),
                       !.dot2  = <<At(ant2_path, idx)>>]
    ELSE LET idx == i - (len1 + len2)
             b   == [a EXCEPT !.line1 = ant1_path,
                              !.dot1  = <<Last(ant1_path)>>,
                              !.line2 = ant2_path,
                              !.dot2  = <<Last(ant2_path)>>]
         IN  IF idx < len3
             THEN [b EXCEPT !.line3 = Prefix(ant3_path, idx + 1),
                            !.dot3  = <<At(ant3_path, idx)>>]
             ELSE b

\* animate keeping a count of the frames still to draw in totalFrames
animate_CountsDown(i) ==
    /\ LET d == Drawn(Artists, i)
       IN  /\ line1' = d.line1 /\ dot1' = d.dot1
           /\ line2' = d.line2 /\ dot2' = d.dot2
           /\ line3' = d.line3 /\ dot3' = d.dot3
    /\ lastI' = i
    /\ totalFrames' = totalFrames - 1
    /\ UNCHANGED <<config, plan, len1, len2, len3, frames, pc>>

animate(i) ==
    /\ LET d == Drawn(Artists, i)
       IN  /\ line1' = d.line1 /\ dot1' = d.dot1
           /\ line2' = d.line2 /\ dot2' = d.dot2
           /\ line3' = d.line3 /\ dot3' = d.dot3
    /\ lastI' = i
    /\ UNCHANGED <<config, plan, lens, frames, pc>>

\* the playback starting over at frame 0 after the last frame (repeat=True)
NextFrame_Repeats ==
    /\ pc = "render"
    /\ IF lastI + 1 < frames THEN animate(lastI + 1) ELSE animate(0)

\* lines 126-129: ani.save draws the frames 0 .. frames-1 in increasing order
NextFrame ==
    /\ pc = "render"
    /\ lastI + 1 < frames
    /\ animate(lastI + 1)

\* lines 129-131: every frame is written, the figure is closed
Close ==
    /\ pc = "render"
    /\ lastI + 1 = frames
    /\ pc' = "done"
    /\ UNCHANGED <<config, plan, lens, frames, artists, lastI>>

\* a sink that re-queries frames: indices of [0, frames), in any order and any
\* number of times; the indices asked for are those around the phase boundaries
Boundaries == {0, len1, len1 + len2, frames}
Dist(a, b) == IF a < b THEN b - a ELSE a - b
QueryFrames == {i \in 0..(frames - 1) : \E b \in Boundaries : Dist(i, b) <= Near}

AnyFrame ==
    /\ pc = "render"
    /\ \E i \in QueryFrames : animate(i)

Planning == Agent1 \/ Agent2 \/ Agent3 \/ Lengths \/ Figure \/ init

Next == Planning \/ NextFrame \/ Close

Spec == Init /\ [][Next]_vars

\* ani.save is a loop over the frames that nothing interrupts: while a frame
\* is left it is drawn, and after the last one the figure is closed
FairSpec == Spec /\ WF_vars(NextFrame) /\ WF_vars(Close)

NextAnyOrder == Planning \/ AnyFrame

InitAnyOrder == InitWith(MinSteps..MaxStepsAnyOrder)

SpecAnyOrder == InitAnyOrder /\ [][NextAnyOrder]_vars

\* ================================================================ claims

Planned(k) == outcome[k] # "NONE"

\* C1: the artists' data after animate(i) is a function of i alone: whatever
\* calls came between init and this one, it is what init followed by
\* animate(i) gives.
C1_RenderIsFunctionOfFrame ==
    (steps >= 1 /\ pc = "render" /\ lastI >= 0) => Artists = Drawn(Cleared, lastI)

\* C2: the sensor-failure flag the run is invoked with decides ant 3's
\* outcome: a forced fresh search and homing when it is true, the memorised
\* trail (so ant 2's length) when it is false.
C2_FlagDecidesAgent3 ==
    (steps >= 1 /\ Planned(3)) =>
        IF sensorFailure
        THEN /\ outcome[3] = "FORCED_SEARCH"
             /\ ant3_path = a3_walk \o generate_homing(Last(a3_walk), Nest)
        ELSE /\ outcome[3] = "REUSED_MEMORY"
             /\ ant3_path = Get(pheromone_memory)
             /\ Len(ant3_path) = Len(ant2_path)

\* C3: when ant 2 checks memory the trail is present; ant 2 never searches,
\* its path is the memorised trail point for point, and it draws nothing
\* from the random source.
C3_Agent2ReusesMemory ==
    /\ pc = "agent2" => pheromone_memory # None
    /\ Planned(2) =>
          /\ outcome[2] = "REUSED_MEMORY"
          /\ pheromone_memory # None
          /\ ant2_path = Get(pheromone_memory)
          /\ \A k \in 1..Len(drawLog) : drawLog[k] # 2

C3_Witness ==
    /\ pc = "agent3"
    /\ steps >= 2
    /\ Len(drawLog) = steps
    /\ Len(ant2_path) = MemSamples
    /\ Last(ant2_path) = food
    /\ food # Nest

\* C4: memory goes from absent to present only by ant 1's discovery, and a
\* present memory is the same in the next state, whatever step is taken
\* (ant 2, ant 3's forced search, a frame callback).
C4_MemoryWrittenOnce ==
    [][ /\ pheromone_memory # None => pheromone_memory' = pheromone_memory
        /\ (pheromone_memory = None /\ pheromone_memory' # None) => pc = "agent1"
      ]_vars

C4_Witness ==
    /\ pc = "done"
    /\ lastI = totalFrames - 1
    /\ outcome[3] = "FORCED_SEARCH"
    /\ a3_walk # a1_walk
    /\ pheromone_memory = Some(MemoryTrail(food))

\* C5: a run invoked with steps <= 0 synthesises no path, writes no memory
\* and renders no frame: it never gets past its entry.
C5_NonPositiveStepsRejected ==
    steps <= 0 =>
        /\ pc = "agent1"
        /\ pheromone_memory = None
        /\ ant1_path = <<>> /\ ant2_path = <<>> /\ ant3_path = <<>>
        /\ lastI < 0
\* C6: for steps >= 1, ant 1's path has steps + 1 + 50 points: the steps+1
\* points of the search from the nest, then every homing sample; the point
\* discovered is both the last search point and the first homing point.
C6_Agent1PathLength ==
    (steps >= 1 /\ Planned(1)) =>
        /\ Len(ant1_path) = steps + 1 + num_steps
        /\ Len(a1_walk) = steps + 1
        /\ SubSeq(ant1_path, 1, steps + 1) = a1_walk
        /\ ant1_path[1] = Nest
        /\ ant1_path[steps + 1] = food
        /\ ant1_path[steps + 2] = food
        /\ Last(ant1_path) = Nest

C6_Witness ==
    /\ pc = "agent2"
    /\ steps = 3
    /\ Len(ant1_path) = 54
    /\ food # Nest

\* C7: totalFrames is the sum of the three path lengths and is the frame
\* count handed to the animation, which draws that many frames; with
\* steps = 10 and the sensor failing, the search legs of ants 1 and 3 have
\* 11 points each and ant 2's path has 50.
C7_TotalFrames ==
    /\ pc \in {"figure", "init", "render", "done"} =>
          totalFrames = Len(ant1_path) + Len(ant2_path) + Len(ant3_path)
    /\ pc \in {"init", "render", "done"} => frames = totalFrames
    /\ pc = "done" => lastI + 1 = Len(ant1_path) + Len(ant2_path) + Len(ant3_path)
    /\ (steps = 10 /\ sensorFailure /\ pc \in {"figure", "init", "render", "done"}) =>
          /\ Len(a1_walk) = 11
          /\ Len(a3_walk) = 11
          /\ Len(ant2_path) = 50
          /\ totalFrames = 61 + 50 + 61

C7_Witness ==
    /\ pc = "done"
    /\ steps = 10
    /\ sensorFailure
    /\ lastI = 171

\* C8: in a playback in increasing frame order, after frame 0 only ant 1's
\* first point is drawn (ants 2 and 3: empty path, no marker), and after
\* frame totalFrames-1 every ant has its whole path drawn and its marker at
\* the last point of its own path.
C8_BoundaryFrames ==
    pc \in {"render", "done"} =>
        /\ lastI = 0 =>
              /\ line1 = <<ant1_path[1]>> /\ dot1 = <<ant1_path[1]>>
              /\ line2 = <<>> /\ dot2 = <<>>
              /\ line3 = <<>> /\ dot3 = <<>>
        /\ lastI = totalFrames - 1 =>
              /\ line1 = ant1_path /\ dot1 = <<Last(ant1_path)>>
              /\ line2 = ant2_path /\ dot2 = <<Last(ant2_path)>>
              /\ line3 = ant3_path /\ dot3 = <<Last(ant3_path)>>

C8_Witness ==
    /\ pc = "done"
    /\ steps >= 1
    /\ lastI = totalFrames - 1
    /\ Len(line1) = len1 /\ Len(line2) = len2 /\ Len(line3) = len3
    /\ dot2 = <<food>>

\* C9: in a playback in increasing frame order no ant's drawn path gets
\* shorter from one frame to the next, and the active ant's grows by one.
C9_MonotoneReveal ==
    [][ (pc = "render" /\ lastI' # lastI) =>
            /\ Len(line1') >= Len(line1)
            /\ Len(line2') >= Len(line2)
            /\ Len(line3') >= Len(line3)
            /\ lastI' < len1 => Len(line1') = Len(line1) + 1
            /\ (len1 <= lastI' /\ lastI' < len1 + len2) =>
                  Len(line2') = Len(line2) + 1
            /\ len1 + len2 <= lastI' => Len(line3') = Len(line3) + 1
      ]_vars

C9_Witness ==
    /\ pc = "render"
    /\ steps >= 1
    /\ lastI = len1 + 1
    /\ Len(line1) = len1 /\ Len(line2) = 2 /\ Len(line3) = 0

\* C10: after animate(i) with i >= len1, ant 1 is drawn with its whole path
\* and its marker at its last point, and with i >= len1 + len2 so is ant 2,
\* whatever calls preceded that one.
C10_FinishedAntsFullyDrawn ==
    pc = "render" =>
        /\ lastI >= len1 =>
              line1 = ant1_path /\ dot1 = <<Last(ant1_path)>>
        /\ lastI >= len1 + len2 =>
              line2 = ant2_path /\ dot2 = <<Last(ant2_path)>>

\* a frame of the second phase asked for again after the last frame was drawn
C10_Witness ==
    /\ pc = "render"
    /\ steps >= 1
    /\ lastI = len1
    /\ line3 = ant3_path
    /\ Len(line2) = 1
    /\ line1 = ant1_path
\* C11: in a playback in increasing frame order, after every frame i < len1
\* ants 2 and 3 have an empty path and no marker, after every frame
\* i < len1 + len2 ant 3 has; and a frame changes the drawn path of at most
\* one ant.
C11_WaitingAntsNotDrawn ==
    [][ (pc = "render" /\ lastI' # lastI) =>
            /\ lastI' < len1 =>
                  line2' = <<>> /\ dot2' = <<>> /\ line3' = <<>> /\ dot3' = <<>>
            /\ lastI' < len1 + len2 => line3' = <<>> /\ dot3' = <<>>
            /\ Cardinality({k \in 1..3 :
                               \/ k = 1 /\ line1' # line1
                               \/ k = 2 /\ line2' # line2
                               \/ k = 3 /\ line3' # line3}) <= 1
      ]_vars

C11_Witness ==
    /\ pc = "render"
    /\ steps >= 1
    /\ lastI = len1 + len2 - 1
    /\ line2 = ant2_path
    /\ line3 = <<>> /\ dot3 = <<>>

\* C12: for every frame i the ant drawn is chosen by i < len1,
\* len1 <= i < len1 + len2, i >= len1 + len2, and after animate(i) that ant
\* is drawn with the first idx+1 points of its path and its marker at point
\* idx, idx being i, i - len1, i - len1 - len2.
C12_ActiveAntDrawnToIndex ==
    (pc \in {"render", "done"} /\ lastI >= 0) =>
        LET i == lastI
        IN  /\ i < len1 =>
                  /\ line1 = SubSeq(ant1_path, 1, i + 1)
                  /\ dot1 = <<ant1_path[i + 1]>>
            /\ (len1 <= i /\ i < len1 + len2) =>
                  /\ line2 = SubSeq(ant2_path, 1, i - len1 + 1)
                  /\ dot2 = <<ant2_path[i - len1 + 1]>>
            /\ len1 + len2 <= i =>
                  /\ line3 = SubSeq(ant3_path, 1, i - len1 - len2 + 1)
                  /\ dot3 = <<ant3_path[i - len1 - len2 + 1]>>
                  /\ Len(line3) = i - len1 - len2 + 1

C12_Witness ==
    /\ pc = "render"
    /\ steps >= 1
    /\ lastI = len1 + len2 + steps
    /\ Len(line3) = steps + 1
    /\ dot3 = <<Last(a3_walk)>>
\* C13: with the frame index increasing from 0 by one, the phase only moves
\* forward 1 -> 2 -> 3, changing exactly at the frames len1 and len1 + len2
\* (so it lasts len1, len2 and len3 frames), and the playback eventually
\* reaches the frame totalFrames - 1 and stops there.
C13_PhasesForwardThenStop ==
    /\ [][ /\ pc # "done"
           /\ pc' = "done" => lastI = totalFrames - 1
           /\ lastI' # lastI =>
                 /\ lastI' = lastI + 1
                 /\ lastI' < len1 + len2 + len3
                 /\ lastI = 0 - 1 => Phase(lastI') = 1
                 /\ lastI >= 0 =>
                       /\ Phase(lastI') >= Phase(lastI)
                       /\ Phase(lastI') # Phase(lastI) <=>
                             lastI' \in {len1, len1 + len2}
         ]_vars
    /\ (pc = "render") ~> (pc = "done" /\ lastI = totalFrames - 1)

C13_Witness ==
    /\ pc = "done"
    /\ steps >= 1
    /\ lastI = len1 + len2 + len3 - 1
    /\ Phase(lastI) = 3
    /\ Phase(len1 + len2 - 1) = 2
    /\ Phase(len1 - 1) = 1
\* C14: the random source is used sequentially: every draw of ant 1's search
\* comes before every draw of ant 3's, ant 2, the homing legs and the memory
\* write draw nothing, and for a step count that is not negative a run makes
\* steps draws when ant 3 reuses memory and 2 * steps when it searches.
C14_DrawsSequential ==
    /\ \A j, k \in 1..Len(drawLog) :
          /\ drawLog[k] \in {1, 3}
          /\ j < k => drawLog[j] <= drawLog[k]
    /\ Planned(3) \/ \A k \in 1..Len(drawLog) : drawLog[k] = 1
    /\ steps >= 0 =>
          /\ (Planned(1) /\ ~Planned(3)) => Len(drawLog) = steps
          /\ outcome[3] = "REUSED_MEMORY" => Len(drawLog) = steps
          /\ outcome[3] = "FORCED_SEARCH" =>
                /\ Len(drawLog) = 2 * steps
                /\ \A k \in 1..steps : drawLog[k] = 1 /\ drawLog[steps + k] = 3

C14_Witness ==
    /\ pc = "done"
    /\ steps = 3
    /\ drawLog = <<1, 1, 1, 3, 3, 3>>
    /\ outcome = <<"SEARCHED", "REUSED_MEMORY", "FORCED_SEARCH">>
\* C15: the memorised trail starts at the nest, ends at the end point of ant
\* 1's search, has as many samples as the homing leg, and is the evenly
\* spaced straight line to that end point, whatever the points in between
\* of ant 1's walk; ant 3's own search ends at its own end point and changes
\* neither the food location nor the trail, which is the path ant 2 follows.
C15_TrailToScoutEndPoint ==
    Planned(1) =>
        LET mem == Get(pheromone_memory)
            n   == Len(mem)
        IN  /\ pheromone_memory # None
            /\ n = Len(ant1_path) - Len(a1_walk)
            /\ n = 50
            /\ mem[1] = Nest
            /\ mem[n] = Last(a1_walk)
            /\ food = Last(a1_walk)
            /\ \A k \in 1..n :
                  /\ (n - 1) * mem[k][1] = (k - 1) * food[1]
                  /\ (n - 1) * mem[k][2] = (k - 1) * food[2]
            /\ Planned(2) => ant2_path = mem
            /\ outcome[3] = "FORCED_SEARCH" =>
                  /\ ant3_path[Len(a3_walk)] = Last(a3_walk)
                  /\ ant3_path[Len(a3_walk) + 1] = Last(a3_walk)

\* ant 1's walk leaves the straight line to the food, and ant 3 ends elsewhere
C15_Witness ==
    /\ pc = "lengths"
    /\ steps >= 2
    /\ food # Nest
    /\ Last(a3_walk) # food
    /\ \A k \in 1..MemSamples : Get(pheromone_memory)[k] # a1_walk[2]
    /\ ant2_path = Get(pheromone_memory)
\* C16: every path, the memory write and the lengths are complete before
\* the first call of animate, and no call of animate, for any i and in any
\* order, changes the paths, len1, len2, len3, totalFrames, the memory or
\* the food location: it changes the data of the artists only.
C16_FramesLeavePlanAlone ==
    [][ /\ lastI' # lastI =>
              /\ pc = "render"
              /\ Planned(1) /\ Planned(2) /\ Planned(3)
              /\ pheromone_memory # None
              /\ len1 = Len(ant1_path) /\ len2 = Len(ant2_path)
              /\ len3 = Len(ant3_path)
              /\ totalFrames = len1 + len2 + len3
              /\ UNCHANGED <<config, plan, lens, frames, pc>>
        /\ pc \in {"figure", "init", "render"} => UNCHANGED <<config, plan, lens>>
      ]_vars

\* frames were asked for out of order: the second ant is being drawn again
\* after the third was completed
C16_Witness ==
    /\ pc = "render"
    /\ steps >= 1
    /\ lastI = len1 + 1
    /\ line3 = ant3_path
    /\ Len(line2) = 2
    /\ ant2_path = Get(pheromone_memory)
    /\ totalFrames = len1 + len2 + len3
\* C17: for a step count that is not negative, the full path of an ant that
\* searched (ant 1 always, ant 3 when forced) starts at the nest, holds the
\* end point of its own search at index steps and again at index steps + 1,
\* and ends at the nest; the end point the search returns is the last point
\* of the search leg.
C17_SearchThenHome ==
    steps >= 0 =>
        /\ Planned(1) =>
              /\ At(ant1_path, 0) = Nest
              /\ At(ant1_path, steps) = Last(a1_walk)
              /\ At(ant1_path, steps + 1) = Last(a1_walk)
              /\ Last(ant1_path) = Nest
              /\ food = Last(a1_walk)
              /\ Len(a1_walk) = steps + 1
        /\ outcome[3] = "FORCED_SEARCH" =>
              /\ At(ant3_path, 0) = Nest
              /\ At(ant3_path, steps) = Last(a3_walk)
              /\ At(ant3_path, steps + 1) = Last(a3_walk)
              /\ Last(ant3_path) = Nest
              /\ Len(a3_walk) = steps + 1

C17_Witness ==
    /\ pc = "lengths"
    /\ steps >= 2
    /\ outcome[3] = "FORCED_SEARCH"
    /\ Last(a1_walk) # Nest
    /\ Last(a3_walk) # Nest
    /\ At(ant3_path, steps + 1) # At(ant1_path, steps + 1)

\* C18: for every frame index i of [0, totalFrames) the index animate
\* computes lies in the path of the ant it draws, so no path is indexed out
\* of range and idx < len3 holds in the third branch: every frame draws.
LenOf(k) == IF k = 1 THEN Len(ant1_path) ELSE IF k = 2 THEN Len(ant2_path)
            ELSE Len(ant3_path)

C18_IndexInRange ==
    /\ pc = "init" =>
          /\ len1 >= 1 /\ len2 >= 1 /\ len3 >= 1
          /\ \A i \in 0..(frames - 1) :
                /\ 0 <= LocalIndex(i)
                /\ LocalIndex(i) < LenOf(Phase(i))
                /\ Phase(i) = 3 => LocalIndex(i) < len3
                /\ Drawn(Cleared, i) # Cleared
    /\ (pc \in {"render", "done"} /\ lastI >= 0) =>
          /\ lastI < frames
          /\ 0 <= LocalIndex(lastI)
          /\ LocalIndex(lastI) < LenOf(Phase(lastI))
          /\ Phase(lastI) = 3 => Len(line3) = LocalIndex(lastI) + 1

C18_Witness ==
    /\ pc = "render"
    /\ steps >= 1
    /\ lastI = frames - 1
    /\ Phase(lastI) = 3
    /\ LocalIndex(lastI) = len3 - 1
    /\ dot3 = <<Last(ant3_path)>>

====
